---- MODULE Spec2Model ----
(***************************************************************************)
(* LinkedListSkipList (src/src/memtable/linkedlist_skiplist.rs) and its    *)
(* iterator LinkedListSkipListIterator, as a state machine.                *)
(*                                                                         *)
(* The heap maps node addresses to Node { key, links }.  The list owns the *)
(* sentinel `head`, current_height and current_size.  into_iter(self)      *)
(* moves the list into the iterator, so inserts happen only before it and  *)
(* cursor calls only after it.                                             *)
(***************************************************************************)
EXTENDS Integers, Sequences, FiniteSets, TLC

\* ------------------------------------------------------------------ bounds
\* const generic MAX_HEIGHT of the list under check (the tests use 2^6).
MAX_HEIGHT == 3
\* Number of nodes Node::new_link may allocate.
MaxNodes == 3
\* Keys order as the integers -1 .. MaxKey.
MaxKey == 1
\* Longest recorded run of keys read from the cursor.
MaxOut == 4

\* ------------------------------------------------------------- key type
\* A Key carries an ordering part k and a payload d; Ord looks at k only,
\* so two keys that compare equal may still differ (the "associated data").
Data == {0, 1}
KeyOrd == (0 - 1) .. MaxKey
Keys == {[k |-> a, d |-> b] : a \in KeyOrd, b \in Data}
\* Arguments of contains and seek: the payload plays no part in Ord.
Probes == {[k |-> a, d |-> 0] : a \in KeyOrd}
\* Key::default()
KeyDefault == [k |-> 0, d |-> 0]
\* Key::default() over Key types: at the lower end of the key order, in its
\* middle (as for the integers) or at its upper end.
SentinelKeys == {[k |-> a, d |-> 0] : a \in {0 - 1, 0, MaxKey}}

KeyLt(a, b) == a.k < b.k
KeyGt(a, b) == a.k > b.k
KeyGe(a, b) == a.k >= b.k
KeyEq(a, b) == a.k = b.k

\* ------------------------------------------------------------- addresses
\* Link<Key> = Option<NonNull<Node<Key>>>: None or an address.
None == 0 - 1
head == 0
Addr == 1 .. MaxNodes

VARIABLES
    heap,            \* address -> Node { key, links }; links: level -> Link
    current_height,  \* LinkedListSkipList.current_height
    current_size,    \* LinkedListSkipList.current_size
    pc,              \* "list": the list is owned by the caller; "iter": by the iterator
    current,         \* LinkedListSkipListIterator.current (None while no iterator exists)
    inserted,        \* history: the keys passed to insert, latest per ordering part
    last,            \* history: the last call, its argument, result and pre-state
    hist             \* history: the keys read from the cursor in the running traversal

vars == <<heap, current_height, current_size, pc, current, inserted, last, hist>>

\* Node::next
NodeNext(h, node, n) == h[node].links[n]

\* Node::set_next
NodeSetNext(h, node, n, x) == [h EXCEPT ![node].links[n] = x]

\* A node made with one link slot too few.
NewNodeShort(key0, height) ==
    [key |-> key0, links |-> [i \in 0 .. height - 2 |-> None]]

\* Node::new_head / Node::new_link: links = vec![None; height]
NewNode(key, height) == [key |-> key, links |-> [i \in 0 .. height - 1 |-> None]]

\* head_next
head_next(level) == NodeNext(heap, head, level)

\* The real (non-sentinel) nodes of a heap.
RealNodes(h) == DOMAIN h \ {head}

\* No traversal is being recorded.
NoHist == [mode |-> "none", out |-> <<>>, nones |-> 0]

Snapshot == [heap |-> heap, current_height |-> current_height,
             current_size |-> current_size, current |-> current]

Init ==
    /\ heap = (head :> NewNode(KeyDefault, MAX_HEIGHT))
    /\ current_height = 0
    /\ current_size = 0
    /\ pc = "list"
    /\ current = None
    /\ inserted = {}
    /\ last = [op |-> "new", arg |-> <<>>, ret |-> <<>>,
               pre |-> [heap |-> (head :> NewNode(KeyDefault, MAX_HEIGHT)),
                        current_height |-> 0, current_size |-> 0, current |-> None]]
    /\ hist = NoHist

\* ------------------------------------------------------------- searching
\* The search loop with the predecessor recorded at level 0 only.
RECURSIVE FindLessLoopNoTrace(_, _, _, _)
FindLessLoopNoTrace(key, search_level, current_node, previous) ==
    LET prev == IF search_level = 0
                THEN [previous EXCEPT ![search_level] = current_node]
                ELSE previous
        next_node == NodeNext(heap, current_node, search_level)
    IN  IF next_node = None
        THEN IF search_level = 0
             THEN [node |-> None, previous |-> prev]
             ELSE FindLessLoopNoTrace(key, search_level - 1, current_node, prev)
        ELSE IF KeyGe(heap[next_node].key, key)
             THEN IF KeyEq(heap[next_node].key, key)
                  THEN [node |-> next_node, previous |-> prev]
                  ELSE IF search_level = 0
                       THEN [node |-> None, previous |-> prev]
                       ELSE FindLessLoopNoTrace(key, search_level - 1, current_node, prev)
             ELSE FindLessLoopNoTrace(key, search_level, next_node, prev)

\* The search loop with an equal key taken for a greater one.
RECURSIVE FindLessLoopNoEq(_, _, _, _)
FindLessLoopNoEq(key, search_level, current_node, previous) ==
    LET prev == [previous EXCEPT ![search_level] = current_node]
        next_node == NodeNext(heap, current_node, search_level)
    IN  IF next_node = None
        THEN IF search_level = 0
             THEN [node |-> None, previous |-> prev]
             ELSE FindLessLoopNoEq(key, search_level - 1, current_node, prev)
        ELSE IF KeyGe(heap[next_node].key, key)
             THEN IF search_level = 0
                  THEN [node |-> None, previous |-> prev]
                  ELSE FindLessLoopNoEq(key, search_level - 1, current_node, prev)
             ELSE FindLessLoopNoEq(key, search_level, next_node, prev)

\* The loop of find_equal_or_less_then (lines 38-60): one call per iteration.
RECURSIVE FindLessLoop(_, _, _, _)
FindLessLoop(key, search_level, current_node, previous) ==
    LET prev == [previous EXCEPT ![search_level] = current_node]
        next_node == NodeNext(heap, current_node, search_level)
    IN  IF next_node = None
        THEN IF search_level = 0
             THEN [node |-> None, previous |-> prev]
             ELSE FindLessLoop(key, search_level - 1, current_node, prev)
        ELSE IF KeyGe(heap[next_node].key, key)
             THEN IF KeyEq(heap[next_node].key, key)
                  THEN [node |-> next_node, previous |-> prev]
                  ELSE IF search_level = 0
                       THEN [node |-> None, previous |-> prev]
                       ELSE FindLessLoop(key, search_level - 1, current_node, prev)
             ELSE FindLessLoop(key, search_level, next_node, prev)

\* find_equal_or_less_then with the first comparison made >= instead of >.
find_equal_or_less_then_ge(key) ==
    LET previous == [i \in 0 .. MAX_HEIGHT - 1 |-> head]
    IN  IF current_height = 0 \/ KeyGe(heap[head_next(0)].key, key)
        THEN [node |-> None, previous |-> previous]
        ELSE FindLessLoop(key, current_height - 1, head, previous)

\* find_equal_or_less_then: (the node equal to key or None, the predecessor trace)
find_equal_or_less_then(key) ==
    LET previous == [i \in 0 .. MAX_HEIGHT - 1 |-> head]
    IN  IF current_height = 0 \/ KeyGt(heap[head_next(0)].key, key)
        THEN [node |-> None, previous |-> previous]
        ELSE FindLessLoop(key, current_height - 1, head, previous)

\* The loop of find_equal_or_greater_then (lines 74-93).
RECURSIVE FindGreaterLoop(_, _, _)
FindGreaterLoop(key, search_level, current_node) ==
    LET next_node == NodeNext(heap, current_node, search_level)
    IN  IF next_node = None
        THEN IF search_level = 0
             THEN None
             ELSE FindGreaterLoop(key, search_level - 1, current_node)
        ELSE IF KeyGe(heap[next_node].key, key)
             THEN IF KeyEq(heap[next_node].key, key) \/ search_level = 0
                  THEN next_node
                  ELSE FindGreaterLoop(key, search_level - 1, current_node)
             ELSE FindGreaterLoop(key, search_level, next_node)

\* find_equal_or_greater_then with the head's own key compared first.
find_equal_or_greater_then_head(key) ==
    IF current_height = 0 \/ KeyGt(heap[head].key, key)
    THEN None
    ELSE FindGreaterLoop(key, current_height - 1, head)

\* find_equal_or_greater_then
find_equal_or_greater_then(key) ==
    IF current_height = 0 \/ KeyGt(heap[head_next(0)].key, key)
    THEN None
    ELSE FindGreaterLoop(key, current_height - 1, head)

\* random_height: 1, and one more per fair coin that comes up true, below MAX_HEIGHT.
RECURSIVE HeightsFrom(_)
HeightsFrom(height) ==
    {height} \cup (IF height < MAX_HEIGHT THEN HeightsFrom(height + 1) ELSE {})

random_height == HeightsFrom(1)

\* The address Box::into_raw hands out in Node::new_link.  The program never
\* looks at the value of an address, so the model names a fresh node after the
\* ordering part of its key when that address is free, and by the least free
\* address otherwise.
new_link(h, key) ==
    LET free == Addr \ DOMAIN h
        slot == key.k + 2
    IN  IF slot \in free THEN slot ELSE CHOOSE a \in free : \A b \in free : a <= b

\* Body of the splice loop with the new node's own link left None.
SpliceLevelLost(h, node, previous, i) ==
    NodeSetNext(h, previous[i], i, node)

\* Body of the splice loop (lines 156-158) at level i.
SpliceLevel(h, node, previous, i) ==
    LET h1 == NodeSetNext(h, node, i, NodeNext(h, previous[i], i))
    IN  NodeSetNext(h1, previous[i], i, node)

\* The splice loop run as `for i in 1..height`.
RECURSIVE SpliceLoopSkip0(_, _, _, _, _)
SpliceLoopSkip0(h, node, previous, i, height) ==
    IF i >= height THEN h
    ELSE IF i = 0 THEN SpliceLoopSkip0(h, node, previous, 1, height)
    ELSE SpliceLoopSkip0(SpliceLevel(h, node, previous, i), node, previous, i + 1, height)

\* for i in 0..height { ... } (line 155)
RECURSIVE SpliceLoop(_, _, _, _, _)
SpliceLoop(h, node, previous, i, height) ==
    IF i >= height THEN h
    ELSE SpliceLoop(SpliceLevel(h, node, previous, i), node, previous, i + 1, height)

\* The update of an equal node with the new key dropped.
UpdateKeyStale(h, node, key) == h

\* (*node.as_ptr()).key = key (line 150)
UpdateKey(h, node, key) == [h EXCEPT ![node].key = key]

\* max that gives its second argument.
MaxSecond(a, b) == b

\* std::cmp::max (line 160)
Max(a, b) == IF a >= b THEN a ELSE b

\* contains
contains(key) == find_equal_or_less_then(key).node # None

\* ------------------------------------------------------------- list calls
\* SkipList::insert
Insert(key) ==
    /\ pc = "list"
    /\ LET r == find_equal_or_less_then(key)
       IN  IF r.node # None
           THEN /\ heap' = UpdateKey(heap, r.node, key)
                /\ UNCHANGED <<current_height, current_size>>
           ELSE /\ Addr \ DOMAIN heap # {}
                /\ \E height \in random_height :
                     LET node == new_link(heap, key)
                         h0 == (node :> NewNode(key, height)) @@ heap
                     IN  /\ heap' = SpliceLoop(h0, node, r.previous, 0, height)
                         /\ current_height' = Max(current_height, height)
                         /\ current_size' = current_size + 1
    /\ inserted' = {x \in inserted : ~KeyEq(x, key)} \cup {key}
    /\ last' = [op |-> "insert", arg |-> <<key>>, ret |-> <<>>, pre |-> Snapshot]
    /\ UNCHANGED <<pc, current, hist>>

\* SkipList::contains
Contains(key) ==
    /\ pc = "list"
    /\ last' = [op |-> "contains", arg |-> <<key>>, ret |-> <<contains(key)>>,
                pre |-> Snapshot]
    /\ UNCHANGED <<heap, current_height, current_size, pc, current, inserted, hist>>

\* IntoIterator::into_iter
IntoIter ==
    /\ pc = "list"
    /\ pc' = "iter"
    /\ current' = head
    /\ last' = [op |-> "into_iter", arg |-> <<>>, ret |-> <<>>, pre |-> Snapshot]
    /\ hist' = [mode |-> "next", out |-> <<>>, nones |-> 0]
    /\ UNCHANGED <<heap, current_height, current_size, inserted>>

\* ----------------------------------------------------------- cursor calls
\* SkipListIterator::valid
valid == current # None

\* SkipListIterator::key: Option<&Key> as a sequence of at most one key
key == IF current # None THEN <<heap[current].key>> ELSE <<>>

\* Iterator::next with the assignment to self.current left out.
iter_next_stuck(cur) ==
    LET next_node == heap[cur].links[0]
    IN  IF next_node # None
        THEN [current |-> cur, ret |-> <<heap[next_node].key>>]
        ELSE [current |-> cur, ret |-> <<>>]

\* Iterator::next (lines 219-227): the new self.current and the returned Option
iter_next(cur) ==
    LET next_node == heap[cur].links[0]
    IN  IF next_node # None
        THEN [current |-> next_node, ret |-> <<heap[next_node].key>>]
        ELSE [current |-> cur, ret |-> <<>>]

\* advance with self.current assigned in both arms.
advance_none(cur) == heap[cur].links[0]

\* advance (lines 249-255): the new self.current
advance(cur) ==
    LET next_node == heap[cur].links[0]
    IN  IF next_node # None THEN next_node ELSE cur

\* seek (lines 264-270): the new self.current
seek(cur, target) ==
    LET target_node == find_equal_or_greater_then(target)
    IN  IF target_node # None THEN target_node ELSE cur

\* seek_to_first (line 278): the new self.current
seek_to_first == head

\* The record of a traversal grows by what was read, up to MaxOut reads; in a
\* run of Iterator::next calls it also counts the None results, up to two.
Record(mode, read) ==
    IF hist.mode = mode /\ Len(hist.out) < MaxOut
    THEN [mode |-> mode, out |-> hist.out \o read,
          nones |-> IF mode = "next" /\ read = <<>> /\ hist.nones < 2
                    THEN hist.nones + 1 ELSE hist.nones]
    ELSE NoHist

\* Iterator::next; self.current.unwrap() needs a present position
IterNext ==
    /\ pc = "iter"
    /\ current # None
    /\ LET r == iter_next(current)
       IN  /\ current' = r.current
           /\ last' = [op |-> "next", arg |-> <<>>, ret |-> r.ret, pre |-> Snapshot]
           /\ hist' = Record("next", r.ret)
    /\ UNCHANGED <<heap, current_height, current_size, pc, inserted>>

\* SkipListIterator::advance, called on a valid cursor after reading key()
Advance ==
    /\ pc = "iter"
    /\ valid
    /\ current' = advance(current)
    /\ last' = [op |-> "advance", arg |-> <<>>, ret |-> <<>>, pre |-> Snapshot]
    /\ hist' = Record("scan", key)
    /\ UNCHANGED <<heap, current_height, current_size, pc, inserted>>

\* SkipListIterator::seek
Seek(target) ==
    /\ pc = "iter"
    /\ current' = seek(current, target)
    /\ last' = [op |-> "seek", arg |-> <<target>>, ret |-> <<>>, pre |-> Snapshot]
    /\ hist' = NoHist
    /\ UNCHANGED <<heap, current_height, current_size, pc, inserted>>

\* SkipListIterator::seek_to_first
SeekToFirst ==
    /\ pc = "iter"
    /\ current' = seek_to_first
    /\ last' = [op |-> "seek_to_first", arg |-> <<>>, ret |-> <<>>, pre |-> Snapshot]
    /\ hist' = [mode |-> "scan", out |-> <<>>, nones |-> 0]
    /\ UNCHANGED <<heap, current_height, current_size, pc, inserted>>

\* SkipList::estimate_count (lines 172-174): the key is not looked at
estimate_count(key0) == current_size

\* SkipList::estimate_count
EstimateCount(key0) ==
    /\ pc = "list"
    /\ last' = [op |-> "estimate_count", arg |-> <<key0>>,
                ret |-> <<estimate_count(key0)>>, pre |-> Snapshot]
    /\ UNCHANGED <<heap, current_height, current_size, pc, current, inserted, hist>>

\* A backward call that returns normally and leaves the cursor as it is.
unimplemented_noop(cur) == [pc |-> "iter", current |-> cur, ret |-> <<>>]

\* unimplemented!() (lines 260, 274, 282): the call panics before it touches
\* self.current
unimplemented(cur) == [pc |-> "panicked", current |-> cur, ret |-> <<"not implemented">>]

\* The end of a backward-navigation call, all three being unimplemented!().
Unsupported(name, arg) ==
    /\ pc = "iter"
    /\ LET r == unimplemented(current)
       IN  /\ pc' = r.pc
           /\ current' = r.current
           /\ last' = [op |-> name, arg |-> arg, ret |-> r.ret, pre |-> Snapshot]
    /\ hist' = NoHist
    /\ UNCHANGED <<heap, current_height, current_size, inserted>>

\* SkipListIterator::prev
Prev == Unsupported("prev", <<>>)

\* SkipListIterator::seek_for_prev; _target is not read
SeekForPrev(target) == Unsupported("seek_for_prev", <<>>)

\* SkipListIterator::seek_to_last
SeekToLast == Unsupported("seek_to_last", <<>>)

\* Memory as Drop sees it: the addresses released so far, in order, and whether
\* a node was read after its release.
ReadNode(mem, node) ==
    [mem EXCEPT !.bad = @ \/ \E i \in 1 .. Len(mem.freed) : mem.freed[i] = node]

\* drop(Box::from_raw(node))
FreeNode(mem, node) == [mem EXCEPT !.freed = Append(@, node)]

\* The loop of drop with the node released before its link is read.
RECURSIVE DropLoopFreeFirst(_, _)
DropLoopFreeFirst(current_node, mem) ==
    IF current_node = None THEN mem
    ELSE DropLoopFreeFirst(NodeNext(heap, current_node, 0),
                           ReadNode(FreeNode(mem, current_node), current_node))

\* while let Some(node) = current_node { ... } (lines 182-185)
RECURSIVE DropLoop(_, _)
DropLoop(current_node, mem) ==
    IF current_node = None THEN mem
    ELSE DropLoop(NodeNext(heap, current_node, 0),
                  FreeNode(ReadNode(mem, current_node), current_node))

\* Drop::drop (lines 178-188): what was released and how
drop ==
    LET m0 == ReadNode([freed |-> <<>>, bad |-> FALSE], head)
        m1 == DropLoop(head_next(0), m0)
    IN  FreeNode(m1, head)

\* Drop for LinkedListSkipList: the list goes out of scope, alone or inside its
\* iterator, also when a panic unwinds.  heap keeps the image of the released
\* nodes; last.ret tells what was released.
Drop ==
    /\ pc \in {"list", "iter", "panicked"}
    /\ pc' = "dropped"
    /\ last' = [op |-> "drop", arg |-> <<>>, ret |-> <<drop>>, pre |-> Snapshot]
    /\ hist' = NoHist
    /\ UNCHANGED <<heap, current_height, current_size, current, inserted>>

Next ==
    \/ \E k \in Keys : Insert(k)
    \/ \E k \in Probes : Contains(k)
    \/ IntoIter
    \/ IterNext
    \/ Advance
    \/ \E t \in Probes : Seek(t)
    \/ SeekToFirst
    \/ \E k \in Probes : EstimateCount(k)
    \/ Prev
    \/ \E t \in Probes : SeekForPrev(t)
    \/ SeekToLast
    \/ Drop

Spec == Init /\ [][Next]_vars

\* LinkedListSkipList::new for any Key type: the key of the sentinel is
\* Key::default(), which is whatever the type makes it.
InitSentinel ==
    \E d0 \in SentinelKeys :
        /\ heap = (head :> NewNode(d0, MAX_HEIGHT))
        /\ current_height = 0
        /\ current_size = 0
        /\ pc = "list"
        /\ current = None
        /\ inserted = {}
        /\ last = [op |-> "new", arg |-> <<>>, ret |-> <<>>,
                   pre |-> [heap |-> (head :> NewNode(d0, MAX_HEIGHT)),
                            current_height |-> 0, current_size |-> 0,
                            current |-> None]]
        /\ hist = NoHist

\* The calls that search: insert, contains and, on the iterator, seek.
NextSentinel ==
    \/ \E k \in Keys : Insert(k)
    \/ \E k \in Probes : Contains(k)
    \/ IntoIter
    \/ \E t \in Probes : Seek(t)

SpecSentinel == InitSentinel /\ [][NextSentinel]_vars

\* ------------------------------------------------------------ properties
\* The nodes met by following level-lvl links from node n, at most fuel of them.
RECURSIVE ChainFrom(_, _, _, _)
ChainFrom(h, n, lvl, fuel) ==
    IF n = None \/ fuel = 0 THEN <<>>
    ELSE <<n>> \o ChainFrom(h, h[n].links[lvl], lvl, fuel - 1)

\* The level-0 chain after the sentinel; a chain longer than the heap has a cycle.
Level0(h) == ChainFrom(h, h[head].links[0], 0, Cardinality(DOMAIN h))

Level0Keys(h) == [i \in 1 .. Len(Level0(h)) |-> h[Level0(h)[i]].key]

StrictlyAscending(seq) == \A i \in 1 .. Len(seq) - 1 : KeyLt(seq[i], seq[i + 1])

IsPrefix(a, b) == Len(a) <= Len(b) /\ \A i \in 1 .. Len(a) : a[i] = b[i]

Range(seq) == {seq[i] : i \in 1 .. Len(seq)}

Stored(key0) == \E x \in inserted : KeyEq(x, key0)

\* The smallest inserted key that is >= target.
Ceiling(target) ==
    CHOOSE x \in inserted :
        KeyGe(x, target) /\ \A y \in inserted : KeyGe(y, target) => KeyGe(y, x)

\* C1: contains(K) is true for every key that was inserted and false for every
\* key that was never inserted, in every state (so also on the empty list and
\* right after insert(K)); the result a contains call returned says the same.
C1_Membership ==
    /\ \A k0 \in Keys : contains(k0) = Stored(k0)
    /\ last.op = "contains" => last.ret[1] = Stored(last.arg[1])

C1_Witness ==
    /\ last.op = "contains"
    /\ last.ret = <<TRUE>>
    /\ current_size >= 2
    /\ \E k0 \in Probes : ~Stored(k0) /\ ~contains(k0)

\* C2: the level-0 chain from the sentinel holds every inserted key exactly
\* once, in strictly ascending order, whatever the order of the inserts and the
\* heights drawn.
C2_Level0Ordered ==
    /\ StrictlyAscending(Level0Keys(heap))
    /\ Range(Level0Keys(heap)) = inserted
    /\ Len(Level0(heap)) = Cardinality(inserted)
    /\ Cardinality(Range(Level0(heap))) = Len(Level0(heap))

\* A node of height >= 2 was just inserted between two stored keys.
C2_Witness ==
    /\ last.op = "insert"
    /\ Len(Level0(heap)) = 3
    /\ Level0(heap)[2] \notin DOMAIN last.pre.heap
    /\ DOMAIN heap[Level0(heap)[2]].links = 0 .. 1
    /\ KeyEq(heap[Level0(heap)[2]].key, last.arg[1])

\* C3: insert(K) with an equal key already stored leaves one node for that
\* key, holding the key just passed, and changes no forward link at any level,
\* nor the set of nodes, current_height or current_size.
C3_UpdateInPlace ==
    (/\ last.op = "insert"
     /\ \E n \in RealNodes(last.pre.heap) : KeyEq(last.pre.heap[n].key, last.arg[1]))
    => /\ Cardinality({n \in RealNodes(heap) : KeyEq(heap[n].key, last.arg[1])}) = 1
       /\ \A n \in RealNodes(heap) :
            KeyEq(heap[n].key, last.arg[1]) => heap[n].key = last.arg[1]
       /\ DOMAIN heap = DOMAIN last.pre.heap
       /\ \A n \in DOMAIN heap : heap[n].links = last.pre.heap[n].links
       /\ \A n \in DOMAIN heap :
            ~KeyEq(heap[n].key, last.arg[1]) => heap[n].key = last.pre.heap[n].key
       /\ current_height = last.pre.current_height
       /\ current_size = last.pre.current_size

\* An equal key with another payload was just inserted into a list of two or more.
C3_Witness ==
    /\ last.op = "insert"
    /\ current_size >= 2
    /\ \E n \in RealNodes(last.pre.heap) :
         /\ KeyEq(last.pre.heap[n].key, last.arg[1])
         /\ last.pre.heap[n].key # last.arg[1]
         /\ DOMAIN heap[n].links = 0 .. 1

\* C4: after seek(T), when some stored key is >= T, the cursor is valid and
\* key() is the smallest stored key >= T.
C4_SeekCeiling ==
    (/\ last.op = "seek"
     /\ \E x \in inserted : KeyGe(x, last.arg[1]))
    => /\ valid
       /\ key = <<Ceiling(last.arg[1])>>

\* C5: after seek(T), when no stored key is >= T, the cursor is invalid.
C5_SeekPastEndInvalid ==
    (/\ last.op = "seek"
     /\ ~ \E x \in inserted : KeyGe(x, last.arg[1]))
    => ~valid

\* C6: after seek_to_first() the cursor is valid iff the list is non-empty, and
\* when valid it is at the sentinel's level-0 successor.
C6_SeekToFirst ==
    last.op = "seek_to_first"
    => /\ valid <=> inserted # {}
       /\ valid => current = heap[head].links[0]

\* C7: advance() on a cursor at a stored node moves it to that node's level-0
\* successor, and makes the cursor invalid when there is none.
C7_Advance ==
    (/\ last.op = "advance"
     /\ last.pre.current \in RealNodes(heap))
    => IF heap[last.pre.current].links[0] # None
       THEN current = heap[last.pre.current].links[0]
       ELSE ~valid

\* C8: in every cursor state valid() is true iff the position is a stored node
\* (never the sentinel); a cursor fresh from into_iter() is invalid and key()
\* never gives the sentinel's key.
C8_ValidIffRealNode ==
    pc = "iter"
    => /\ valid <=> current \in RealNodes(heap)
       /\ last.op = "into_iter" => ~valid
       /\ current = head => key = <<>>

\* C9: seek_to_first() followed by reading key() and calling advance() while
\* valid() reads the stored keys in level-0 order, each once, and the cursor is
\* invalid exactly when all of them have been read.
C9_ScanReadsAll ==
    hist.mode = "scan"
    => /\ IsPrefix(hist.out, Level0Keys(heap))
       /\ valid <=> Len(hist.out) < Len(Level0Keys(heap))

\* C10: after into_iter(), calls of Iterator::next() alone give the stored
\* keys in strictly ascending order, each once; None comes only when all of
\* them were given, and after a None every later call gives None.
C10_NextYieldsAll ==
    hist.mode = "next"
    => /\ StrictlyAscending(hist.out)
       /\ Range(hist.out) \subseteq inserted
       /\ hist.nones > 0 => Range(hist.out) = inserted
       /\ last.op = "next" =>
            IF last.ret = <<>>
            THEN hist.nones > 0
            ELSE hist.nones = 0 /\ last.ret[1] = hist.out[Len(hist.out)]

\* Three keys were given and None came twice after them.
C10_Witness ==
    /\ hist.mode = "next"
    /\ Len(hist.out) = 3
    /\ hist.nones = 2
    /\ last.op = "next"

\* C11: estimate_count(K) returns the number of stored entries whose key is
\* strictly less than K.
C11_CountBelow ==
    last.op = "estimate_count"
    => last.ret[1] = Cardinality({x \in inserted : KeyLt(x, last.arg[1])})

\* C12: prev(), seek_for_prev(target) and seek_to_last() end in the explicit
\* not-implemented failure in every cursor state; none returns normally and
\* none moves the cursor or changes the list.
C12_BackwardUnsupported ==
    last.op \in {"prev", "seek_for_prev", "seek_to_last"}
    => /\ pc # "iter"
       /\ last.ret = <<"not implemented">>
       /\ current = last.pre.current
       /\ heap = last.pre.heap

\* seek_for_prev failed on a cursor standing on a stored node.
C12_Witness ==
    /\ last.op = "seek_for_prev"
    /\ pc = "panicked"
    /\ last.pre.current \in RealNodes(heap)
    /\ current_size >= 2

\* The level-lvl chain after the sentinel.
Chain(h, lvl) == ChainFrom(h, h[head].links[lvl], lvl, Cardinality(DOMAIN h))

ChainKeys(h, lvl) == [i \in 1 .. Len(Chain(h, lvl)) |-> h[Chain(h, lvl)[i]].key]

Height(h, n) == Cardinality(DOMAIN h[n].links)

\* C13: for every level L > 0 the nodes on the level-L chain from the sentinel
\* are among those on the level-(L-1) chain, and the level-L chain is in
\* strictly ascending key order.
C13_LevelInclusion ==
    \A L \in 1 .. MAX_HEIGHT - 1 :
        /\ Range(Chain(heap, L)) \subseteq Range(Chain(heap, L - 1))
        /\ StrictlyAscending(ChainKeys(heap, L))

\* Three nodes, the top chain skipping the middle one.
C13_Witness ==
    /\ last.op = "insert"
    /\ Len(Chain(heap, 0)) = 3
    /\ Len(Chain(heap, 1)) = 2
    /\ Chain(heap, 1) = <<Chain(heap, 0)[1], Chain(heap, 0)[3]>>
    /\ Len(Chain(heap, MAX_HEIGHT - 1)) = 1

\* C14: when the search for K finds no equal key, at every level i below
\* MAX_HEIGHT previous[i] is the sentinel or a node with key < K on the level-i
\* chain, and its level-i successor is absent or has key > K; previous[i] is
\* the sentinel at levels at or above current_height, on an empty list, and
\* when K is smaller than every stored key.
C14_PredecessorTrace ==
    \A k0 \in Probes :
        LET r == find_equal_or_less_then(k0)
        IN  r.node = None =>
            \A i \in 0 .. MAX_HEIGHT - 1 :
                LET p == r.previous[i]
                IN  /\ \/ p = head
                       \/ /\ p \in RealNodes(heap)
                          /\ KeyLt(heap[p].key, k0)
                          /\ p \in Range(Chain(heap, i))
                    /\ i \in DOMAIN heap[p].links
                    /\ \/ heap[p].links[i] = None
                       \/ KeyGt(heap[heap[p].links[i]].key, k0)
                    /\ (\/ i >= current_height
                        \/ inserted = {}
                        \/ \A x \in inserted : KeyGt(x, k0)) => p = head

\* The search for an absent key, made by contains, ends with two different
\* stored nodes as predecessors at levels 0 and 1 and the sentinel above.
C14_Witness ==
    /\ last.op = "contains"
    /\ last.ret = <<FALSE>>
    /\ LET r == find_equal_or_less_then(last.arg[1])
       IN  /\ r.previous[0] \in RealNodes(heap)
           /\ r.previous[1] \in RealNodes(heap)
           /\ r.previous[0] # r.previous[1]
           /\ r.previous[MAX_HEIGHT - 1] = head

\* C15: current_height is 0 for a new list, is not lowered by any call, is at
\* most MAX_HEIGHT, is at least the height of every node, and is at least 1
\* once a key was inserted.
C15_HeightBounds ==
    /\ last.op = "new" => current_height = 0
    /\ current_height >= last.pre.current_height
    /\ current_height <= MAX_HEIGHT
    /\ \A n \in RealNodes(heap) : Height(heap, n) <= current_height
    /\ inserted # {} => current_height >= 1

\* A node lower than current_height was just inserted.
C15_Witness ==
    /\ last.op = "insert"
    /\ \E n \in RealNodes(heap) \ DOMAIN last.pre.heap :
         Height(heap, n) < last.pre.current_height
    /\ current_height = last.pre.current_height

\* C16: current_size is the number of nodes on the level-0 chain and the
\* number of distinct keys inserted; an insert of a new key adds one to it and
\* an insert of a stored key adds nothing.
C16_SizeCountsKeys ==
    /\ current_size = Len(Chain(heap, 0))
    /\ current_size = Cardinality({x.k : x \in inserted})
    /\ last.op = "insert" =>
         current_size - last.pre.current_size =
            (IF \E n \in RealNodes(last.pre.heap) :
                    KeyEq(last.pre.heap[n].key, last.arg[1])
             THEN 0 ELSE 1)

\* A stored key was inserted again and the size stayed at 3.
C16_Witness ==
    /\ last.op = "insert"
    /\ current_size = 3
    /\ last.pre.current_size = 3

\* C18: drop releases every inserted node once and the sentinel once, the
\* sentinel last, and reads no node after its release.
C18_DropReleasesAll ==
    last.op = "drop"
    => LET m == last.ret[1]
       IN  /\ ~m.bad
           /\ Range(m.freed) = DOMAIN last.pre.heap
           /\ Len(m.freed) = Cardinality(DOMAIN last.pre.heap)
           /\ Len(m.freed) = Cardinality(inserted) + 1
           /\ m.freed[Len(m.freed)] = head

\* A list of three nodes was dropped inside its iterator.
C18_Witness ==
    /\ last.op = "drop"
    /\ pc = "dropped"
    /\ Len(last.ret[1].freed) = 4
    /\ last.pre.current \in RealNodes(heap)

\* C19: in every cursor state the position is present, so the unwrap in
\* advance() and Iterator::next() does not fail.
C19_CurrentPresent ==
    pc = "iter" => current # None /\ current \in DOMAIN heap

\* advance was called on the last node and found no successor.
C19_Witness ==
    /\ pc = "iter"
    /\ last.op = "advance"
    /\ current_size >= 2
    /\ current \in RealNodes(heap)
    /\ heap[current].links[0] = None
    /\ last.pre.current = current

\* C20: link accesses stay in range: the sentinel has MAX_HEIGHT slots and the
\* search starts below that; a link at level L leads to a node with more than
\* L slots; each predecessor previous[i] used by the splice has a slot i; the
\* cursor stands on a node with a slot 0; and no call changes a node's number
\* of slots.
C20_LinkAccessInRange ==
    /\ DOMAIN heap[head].links = 0 .. MAX_HEIGHT - 1
    /\ current_height <= MAX_HEIGHT
    /\ \A n \in DOMAIN heap :
         /\ Height(heap, n) >= 1
         /\ DOMAIN heap[n].links = 0 .. Height(heap, n) - 1
         /\ \A L \in DOMAIN heap[n].links :
              heap[n].links[L] # None =>
                 /\ heap[n].links[L] \in DOMAIN heap
                 /\ L \in DOMAIN heap[heap[n].links[L]].links
    /\ \A k0 \in Probes :
         LET r == find_equal_or_less_then(k0)
         IN  \A i \in 0 .. MAX_HEIGHT - 1 : i \in DOMAIN heap[r.previous[i]].links
    /\ pc = "iter" => current \in DOMAIN heap /\ 0 \in DOMAIN heap[current].links
    /\ \A n \in DOMAIN last.pre.heap :
         n \in DOMAIN heap /\ DOMAIN heap[n].links = DOMAIN last.pre.heap[n].links

\* A node of full height was just linked after a stored node at the top level.
C20_Witness ==
    /\ last.op = "insert"
    /\ \E n \in RealNodes(last.pre.heap) :
         /\ MAX_HEIGHT - 1 \in DOMAIN heap[n].links
         /\ heap[n].links[MAX_HEIGHT - 1] # None
         /\ heap[n].links[MAX_HEIGHT - 1] \notin DOMAIN last.pre.heap

\* The node a search for target ends on, told from the stored keys alone: None
\* when the list is empty or target is below its first key, else the first
\* node of the level-0 chain with a key >= target.
FirstAtOrAbove(target) ==
    LET c == Chain(heap, 0)
        hit == {i \in 1 .. Len(c) : KeyGe(heap[c[i]].key, target)}
    IN  IF c = <<>> \/ KeyGt(heap[c[1]].key, target) \/ hit = {}
        THEN None
        ELSE c[CHOOSE i \in hit : \A j \in hit : i <= j]

\* C17: whatever key the sentinel holds, no link leads to the sentinel, so
\* its key is never the one a search compares; every node is on the chains of
\* its levels after the sentinel, also with a key at or below the sentinel's;
\* and what insert built, what contains answers and where seek goes are told
\* by the inserted keys alone.
C17_SentinelKeyUnused ==
    /\ \A n \in DOMAIN heap : \A L \in DOMAIN heap[n].links : heap[n].links[L] # head
    /\ \A n \in RealNodes(heap) :
         \A L \in DOMAIN heap[n].links : n \in Range(Chain(heap, L))
    /\ Range(ChainKeys(heap, 0)) = inserted
    /\ \A t \in Probes :
         /\ contains(t) = Stored(t)
         /\ find_equal_or_greater_then(t) = FirstAtOrAbove(t)
    /\ last.op = "seek" =>
         current = (IF FirstAtOrAbove(last.arg[1]) # None
                    THEN FirstAtOrAbove(last.arg[1]) ELSE last.pre.current)
    /\ heap[head].key = last.pre.heap[head].key

\* With a stored key below the sentinel's and one equal to it, seek moved the
\* cursor for a target at or below the sentinel's key.
C17_Witness ==
    /\ last.op = "seek"
    /\ KeyGe(heap[head].key, last.arg[1])
    /\ current \in RealNodes(heap)
    /\ current # last.pre.current
    /\ \E n \in RealNodes(heap) : KeyLt(heap[n].key, heap[head].key)
    /\ \E n \in RealNodes(heap) : KeyEq(heap[n].key, heap[head].key)

====
